---- MODULE Spec2Model ----
(***************************************************************************)
(* Model of src/open.py: the invoice extraction pipeline.                  *)
(*   main -> get_pdf_content -> extract_invoice_details                    *)
(*        [-> get_ai_response -> json.loads -> Invoice]                    *)
(*        -> insert_invoice_data                                           *)
(* Python values are tagged records; a float is kept in tenths so that     *)
(* the conversions pydantic performs (int -> float, str -> float,          *)
(* float -> int) are computed and not assumed.                             *)
(***************************************************************************)
EXTENDS Integers, Sequences, FiniteSets, TLC

\* Largest number of directory entries of a batch.
MaxDocs == 2

(***************************************************************************)
(* Python / JSON values                                                    *)
(***************************************************************************)
PyStr(a)  == [t |-> "str", s |-> a]       \* the str with literal text a
JsonStr(v) == [t |-> "jstr", j |-> v]      \* the str that is the JSON text of v
PyInt(k)  == [t |-> "int", n |-> k]
PyFloat(k)  == [t |-> "float", n |-> k]     \* k tenths: PyFloat(1000) is 100.0
PyBool(b) == [t |-> "bool", b |-> b]
None    == [t |-> "null"]
Arr(k)  == [t |-> "arr", n |-> k]       \* a list of k elements
Obj(f)  == [t |-> "obj", o |-> f]       \* a dict, f maps its keys to values
Absent  == [t |-> "absent"]             \* marks a key left out of a dict

IsStr(v) == v.t \in {"str", "jstr"}

\* Python truthiness, as tested by `if not response`.
Truthy(v) ==
  CASE v.t = "str"   -> v.s # ""
    [] v.t = "jstr"  -> TRUE
    [] v.t = "int"   -> v.n # 0
    [] v.t = "float" -> v.n # 0
    [] v.t = "bool"  -> v.b
    [] v.t = "null"  -> FALSE
    [] v.t = "arr"   -> v.n # 0
    [] v.t = "obj"   -> DOMAIN v.o # {}
    [] OTHER         -> FALSE

\* Python ==, on the scalar values a record field can hold: numbers compare
\* by value whatever their type, a str equals only the same str.
PyEq(a, b) ==
  CASE a.t \in {"int", "float"} /\ b.t \in {"int", "float"} ->
         (IF a.t = "int" THEN a.n * 10 ELSE a.n) = (IF b.t = "int" THEN b.n * 10 ELSE b.n)
    [] OTHER -> a = b

\* The literal texts that are JSON numbers, and their value in tenths.
NumericText == {"100.0", "30", "8.5", "0"}
TextTenths(s) ==
  CASE s = "100.0" -> 1000
    [] s = "30"    -> 300
    [] s = "8.5"   -> 85
    [] s = "0"     -> 0
\* The literal texts written without a fraction (JSON integers).
IntegerText == {"30", "0"}

Raise(e, locs) == [r |-> "raise", exc |-> e, names |-> locs]
Return(v)      == [r |-> "ret", v |-> v]

\* json.loads(x): x must be a str; its text is parsed.
json_loads(x) ==
  CASE x.t = "jstr" -> Return(x.j)
    [] x.t = "str" /\ x.s \in IntegerText -> Return(PyInt(TextTenths(x.s) \div 10))
    [] x.t = "str" /\ x.s \in NumericText -> Return(PyFloat(TextTenths(x.s)))
    [] x.t = "str" -> Raise("JSONDecodeError", {})
    [] OTHER -> Raise("TypeError", {})

\* json.dumps(results, indent=2)
json_dumps(v) == JsonStr(v)

(***************************************************************************)
(* The pydantic models (validation in pydantic's default, lax, mode)       *)
(***************************************************************************)
Invalid == [t |-> "invalid"]

\* field: str
AsStr(v) == IF IsStr(v) THEN v ELSE Invalid

\* field: float
AsFloat(v) ==
  CASE v.t = "float" -> v
    [] v.t = "int"   -> PyFloat(v.n * 10)
    [] v.t = "str" /\ v.s \in NumericText -> PyFloat(TextTenths(v.s))
    [] v.t = "bool"  -> PyFloat(IF v.b THEN 10 ELSE 0)
    [] OTHER -> Invalid

\* field: int
AsInt(v) ==
  CASE v.t = "int" -> v
    [] v.t = "float" /\ v.n % 10 = 0 -> PyInt(v.n \div 10)
    [] v.t = "str" /\ v.s \in NumericText /\ TextTenths(v.s) % 10 = 0 ->
         PyInt(TextTenths(v.s) \div 10)
    [] v.t = "bool"  -> PyInt(IF v.b THEN 1 ELSE 0)
    [] OTHER -> Invalid

PartyFields == {"name", "address", "phone", "email"}

\* Field(...): a required field. The value of key k of dict d, or Absent,
\* which no converter accepts.
Field(d, k) == IF k \in DOMAIN d THEN d[k] ELSE Absent


\* Mutant of Vendor: phone declared Optional, None when left out.
Vendor_PhoneOptional(v) ==
  IF v.t # "obj" THEN [ok |-> FALSE, errs |-> {<<"vendor">>}]
  ELSE LET val == [k \in PartyFields |->
                     IF k = "phone" /\ k \notin DOMAIN v.o THEN None
                     ELSE AsStr(Field(v.o, k))]
           bad == {k \in PartyFields : val[k] = Invalid}
       IN IF bad = {} THEN [ok |-> TRUE, val |-> val]
          ELSE [ok |-> FALSE, errs |-> {<<"vendor", k>> : k \in bad}]

\* class Vendor(BaseModel)
Vendor(v) ==
  IF v.t # "obj" THEN [ok |-> FALSE, errs |-> {<<"vendor">>}]
  ELSE LET val == [k \in PartyFields |-> AsStr(Field(v.o, k))]
           bad == {k \in PartyFields : val[k] = Invalid}
       IN IF bad = {} THEN [ok |-> TRUE, val |-> val]
          ELSE [ok |-> FALSE, errs |-> {<<"vendor", k>> : k \in bad}]

\* class Customer(BaseModel)
Customer(v) ==
  IF v.t # "obj" THEN [ok |-> FALSE, errs |-> {<<"customer">>}]
  ELSE LET val == [k \in PartyFields |-> AsStr(Field(v.o, k))]
           bad == {k \in PartyFields : val[k] = Invalid}
       IN IF bad = {} THEN [ok |-> TRUE, val |-> val]
          ELSE [ok |-> FALSE, errs |-> {<<"customer", k>> : k \in bad}]

ScalarFields == {"invoiceNumber", "date", "totalAmount", "tax", "paymentTerms"}
InvoiceFields == {"vendor", "customer"} \cup ScalarFields

\* Mutant of InvoiceScalar: tax declared Optional, None when left out.
InvoiceScalar_TaxOptional(d, k) ==
  CASE k \in {"invoiceNumber", "date"} -> AsStr(Field(d, k))
    [] k = "totalAmount"               -> AsFloat(Field(d, k))
    [] k = "tax" -> IF k \in DOMAIN d THEN AsFloat(d[k]) ELSE None
    [] k = "paymentTerms"              -> AsInt(Field(d, k))

\* The converter of each scalar field of Invoice.
InvoiceScalar(d, k) ==
  CASE k \in {"invoiceNumber", "date"} -> AsStr(Field(d, k))
    [] k \in {"totalAmount", "tax"}    -> AsFloat(Field(d, k))
    [] k = "paymentTerms"              -> AsInt(Field(d, k))

\* class Invoice(BaseModel): the call Invoice with the keywords of dict d.
\* Keys that are no field are ignored; every error is reported by its field.
Invoice(d) ==
  LET ven  == IF "vendor" \in DOMAIN d THEN Vendor(d["vendor"])
              ELSE [ok |-> FALSE, errs |-> {<<"vendor">>}]
      cus  == IF "customer" \in DOMAIN d THEN Customer(d["customer"])
              ELSE [ok |-> FALSE, errs |-> {<<"customer">>}]
      sc   == [k \in ScalarFields |-> InvoiceScalar(d, k)]
      errs == (IF ven.ok THEN {} ELSE ven.errs) \cup (IF cus.ok THEN {} ELSE cus.errs)
                \cup {<<k>> : k \in {f \in ScalarFields : sc[f] = Invalid}}
  IN IF errs # {} THEN Raise("ValidationError", errs)
     ELSE Return([vendor |-> ven.val, customer |-> cus.val,
                  invoiceNumber |-> sc["invoiceNumber"], date |-> sc["date"],
                  totalAmount |-> sc["totalAmount"], tax |-> sc["tax"],
                  paymentTerms |-> sc["paymentTerms"]])

\* invoice.model_dump(): the record as a dict of dicts.
model_dump(inv) ==
  Obj([k \in InvoiceFields |->
        CASE k = "vendor"   -> Obj(inv.vendor)
          [] k = "customer" -> Obj(inv.customer)
          [] k = "invoiceNumber" -> inv.invoiceNumber
          [] k = "date" -> inv.date
          [] k = "totalAmount" -> inv.totalAmount
          [] k = "tax" -> inv.tax
          [] k = "paymentTerms" -> inv.paymentTerms])

(***************************************************************************)
(* Persistence                                                             *)
(***************************************************************************)
\* dict.get(key) and dict.get(key, {}): the value of the key, or the default.
Get(d, k, default) == IF k \in DOMAIN d.o THEN d.o[k] ELSE default

\* Mutant of insert_invoice_data: customer_phone bound from the vendor.
insert_invoice_data_VendorPhoneTwice(invoice_data) ==
  LET vendor   == Get(invoice_data, "vendor", Obj(<<>>))
      customer == Get(invoice_data, "customer", Obj(<<>>))
  IN [vendor_name      |-> Get(vendor, "name", None),
      vendor_address   |-> Get(vendor, "address", None),
      vendor_phone     |-> Get(vendor, "phone", None),
      vendor_email     |-> Get(vendor, "email", None),
      customer_name    |-> Get(customer, "name", None),
      customer_address |-> Get(customer, "address", None),
      customer_phone   |-> Get(vendor, "phone", None),
      customer_email   |-> Get(customer, "email", None),
      invoice_number   |-> Get(invoice_data, "invoiceNumber", None),
      date             |-> Get(invoice_data, "date", None),
      total_amount     |-> Get(invoice_data, "totalAmount", None),
      tax              |-> Get(invoice_data, "tax", None),
      payment_terms    |-> Get(invoice_data, "paymentTerms", None)]

\* insert_invoice_data: the tuple bound to the INSERT statement.
insert_invoice_data(invoice_data) ==
  LET vendor   == Get(invoice_data, "vendor", Obj(<<>>))
      customer == Get(invoice_data, "customer", Obj(<<>>))
  IN [vendor_name      |-> Get(vendor, "name", None),
      vendor_address   |-> Get(vendor, "address", None),
      vendor_phone     |-> Get(vendor, "phone", None),
      vendor_email     |-> Get(vendor, "email", None),
      customer_name    |-> Get(customer, "name", None),
      customer_address |-> Get(customer, "address", None),
      customer_phone   |-> Get(customer, "phone", None),
      customer_email   |-> Get(customer, "email", None),
      invoice_number   |-> Get(invoice_data, "invoiceNumber", None),
      date             |-> Get(invoice_data, "date", None),
      total_amount     |-> Get(invoice_data, "totalAmount", None),
      tax              |-> Get(invoice_data, "tax", None),
      payment_terms    |-> Get(invoice_data, "paymentTerms", None)]

(***************************************************************************)
(* The model call and the response normalizer                              *)
(***************************************************************************)
\* The exceptions extract_invoice_details raises itself.
EmptyModelResponse == "ValueError: Failed to extract invoice details from the PDF content."
MalformedResponse  == "ValueError: Invalid JSON response"
SchemaViolation    == "ValidationError"

\* get_ai_response, after client.chat.completions.create returned `content`
\* as the first choice's message content: lines 154-155.
get_ai_response(content) ==
  LET results == json_loads(content)
  IN IF results.r = "raise" THEN results
     ELSE IF results.v.t = "obj" THEN Return(json_dumps(results.v))
     ELSE Return(results.v)

\* Mutant of Merged: only the keys of invoice_data['invoice'] are kept.
Merged_ScalarsOnly(invoice_data) ==
  LET inv == invoice_data["invoice"]
  IN IF inv.t # "obj" THEN Raise("TypeError", {}) ELSE Return(inv.o)

\* The dict display of line 188: the keys of invoice_data['invoice'], then
\* 'vendor' and 'customer' of invoice_data, evaluated in that order.
Merged(invoice_data) ==
  LET inv == invoice_data["invoice"]
  IN IF inv.t # "obj" THEN Raise("TypeError", {})
     ELSE IF "vendor" \notin DOMAIN invoice_data THEN Raise("KeyError", {<<"vendor">>})
     ELSE IF "customer" \notin DOMAIN invoice_data THEN Raise("KeyError", {<<"customer">>})
     ELSE Return([k \in DOMAIN inv.o \cup {"vendor", "customer"} |->
                    IF k \in {"vendor", "customer"} THEN invoice_data[k] ELSE inv.o[k]])

\* extract_invoice_details from the return of get_ai_response on: lines 178-191.
ResponseNormalizer(response) ==
  IF ~Truthy(response) THEN Raise(EmptyModelResponse, {})
  ELSE LET parsed == json_loads(response)
       IN IF parsed.r = "raise"
          THEN (IF parsed.exc = "JSONDecodeError"
                THEN Raise(MalformedResponse, {}) ELSE parsed)
          ELSE LET invoice_data == parsed.v
               IN IF invoice_data.t # "obj"
                  \* `in`, subscripting or ** on a value that is no dict
                  THEN Raise("TypeError", {})
                  ELSE IF "invoice" \in DOMAIN invoice_data.o
                  THEN (LET merged == Merged(invoice_data.o)
                        IN IF merged.r = "raise" THEN merged ELSE Invoice(merged.v))
                  ELSE Invoice(invoice_data.o)

(***************************************************************************)
(* The inputs: message contents, documents, command lines                  *)
(***************************************************************************)
ValidVendor ==
  [name |-> PyStr("Acme"), address |-> PyStr("1 Rd"),
   phone |-> PyStr("555-0100"), email |-> PyStr("a@x.com")]
ValidCustomer ==
  [name |-> PyStr("Bob"), address |-> PyStr("2 Rd"),
   phone |-> PyStr("555-0101"), email |-> PyStr("b@x.com")]
\* A response that conforms to expected_schema, as a dict.
ValidFlat ==
  [vendor |-> Obj(ValidVendor), customer |-> Obj(ValidCustomer),
   invoiceNumber |-> PyStr("INV-1"), date |-> PyStr("2024-01-01"),
   totalAmount |-> PyFloat(1000), tax |-> PyFloat(80), paymentTerms |-> PyInt(30)]

\* Dict d with key k set to v, or without key k when v is Absent.
SetKey(d, k, v) ==
  IF v = Absent THEN [x \in DOMAIN d \ {k} |-> d[x]]
  ELSE [x \in DOMAIN d \cup {k} |-> IF x = k THEN v ELSE d[x]]

\* What a model may put in place of a field's value.
StrAlts   == {Absent, None, PyInt(5), PyStr("")}
FloatAlts == {Absent, None, PyStr("100.0"), PyStr("abc"), PyInt(100), PyFloat(85)}
IntAlts   == {Absent, None, PyStr("30"), PyStr("Net 30"), PyFloat(300), PyFloat(305), PyInt(0)}
PartyAlts(party) ==
  {Absent, None, PyStr("Acme")}
    \cup {Obj(SetKey(party, k, a)) : k \in PartyFields, a \in StrAlts}
Alts(k) ==
  CASE k = "vendor"   -> PartyAlts(ValidVendor)
    [] k = "customer" -> PartyAlts(ValidCustomer)
    [] k \in {"invoiceNumber", "date"} -> StrAlts
    [] k \in {"totalAmount", "tax"}    -> FloatAlts
    [] k = "paymentTerms"              -> IntAlts
    [] k = "currency"                  -> {PyStr("USD")}

\* The dicts that differ from d in one key (a key of the schema, or one more).
OnePoint(d) ==
  UNION {{SetKey(d, k, a) : a \in Alts(k)} : k \in InvoiceFields \cup {"currency"}}

\* The example response of the specification: no phone, no paymentTerms.
NoPhoneNoTerms ==
  [vendor |-> Obj(SetKey(ValidVendor, "phone", Absent)),
   customer |-> Obj(SetKey(ValidCustomer, "phone", Absent)),
   invoiceNumber |-> PyStr("INV-1"), date |-> PyStr("2024-01-01"),
   totalAmount |-> PyFloat(1000), tax |-> PyFloat(80)]

\* The logical records: flat dicts around the valid one.
LogicalRecords ==
  {ValidFlat, NoPhoneNoTerms} \cup OnePoint(ValidFlat)
    \cup UNION {OnePoint(d) : d \in OnePoint(ValidFlat)}

\* The wrapped form of a flat dict: scalars under 'invoice', vendor and
\* customer left at top level.
Wrapped(d) ==
  [k \in (DOMAIN d \cap {"vendor", "customer"}) \cup {"invoice"} |->
     IF k = "invoice"
     THEN Obj([x \in DOMAIN d \ {"vendor", "customer"} |-> d[x]])
     ELSE d[k]]

FlatContent(d)    == JsonStr(Obj(d))
WrappedContent(d) == JsonStr(Obj(Wrapped(d)))

\* Message contents that are no invoice object at all, or a wrapped object
\* whose 'invoice' is no object.
OtherContents ==
  {PyStr(""), PyStr("not json"), PyStr("30"), PyStr("0"), None,
   JsonStr(Arr(0)), JsonStr(Arr(1)), JsonStr(PyStr("")), JsonStr(PyStr("abc")),
   JsonStr(PyStr("30")), JsonStr(None), JsonStr(PyBool(TRUE)), JsonStr(PyBool(FALSE)),
   JsonStr(PyFloat(85)), JsonStr(Obj(<<>>)), JsonStr(FlatContent(ValidFlat))}
    \cup {JsonStr(Obj(SetKey(Wrapped(ValidFlat), "invoice", a))) :
            a \in {None, PyStr("INV-1"), Arr(1)}}
    \cup {JsonStr(Obj(SetKey(Wrapped(ValidFlat), "tax", PyFloat(85))))}

AllContents ==
  {FlatContent(d) : d \in LogicalRecords}
    \cup {WrappedContent(d) : d \in LogicalRecords} \cup OtherContents

\* What happens to one document: whether PdfReader, the model endpoint and
\* the INSERT raise, and the message content the model returns.
Scenario(pdf, api, content, insert) ==
  [pdf |-> pdf, api |-> api, content |-> content, insert |-> insert]
Healthy(content) == Scenario("ok", "ok", content, "ok")

MissingTax       == SetKey(ValidFlat, "tax", Absent)
NumericStrTotal  == SetKey(ValidFlat, "totalAmount", PyStr("100.0"))
WrappedNoVendor  == Wrapped(SetKey(ValidFlat, "vendor", Absent))

\* The scenarios of the documents of a batch: every stage failing, and one
\* content for each way the normalizer ends.
BatchScenarios ==
  {Scenario("raise", "ok", None, "ok"), Scenario("ok", "raise", None, "ok"),
   Scenario("ok", "ok", FlatContent(ValidFlat), "raise")}
    \cup {Healthy(c) : c \in
            {FlatContent(ValidFlat), WrappedContent(ValidFlat), FlatContent(MissingTax),
             FlatContent(NoPhoneNoTerms), FlatContent(NumericStrTotal),
             JsonStr(Obj(WrappedNoVendor)), PyStr(""), PyStr("not json"),
             JsonStr(PyStr("")), JsonStr(Arr(1))}}

\* A directory entry, or the file named on the command line.
File(ext, sc) == [ext |-> ext, sc |-> sc]
NotADocument == Scenario("raise", "ok", None, "ok")
BatchFiles ==
  {File(".pdf", sc) : sc \in BatchScenarios}
    \cup {File(".PDF", Healthy(FlatContent(ValidFlat))), File(".txt", NotADocument)}

\* str.lower() and str.endswith(".pdf") on a file name's extension.
Lower(ext) == IF ext = ".PDF" THEN ".pdf" ELSE ext
EndsWithPdf(ext) == ext = ".pdf"

SeqsUpTo(S, n) == UNION {[1..k -> S] : k \in 0..n}

\* The command lines and file systems a run starts from:
\* kind is "noarg" (no argument), "missing" (no such path), "file", "dir"
\* or "other" (a path that is neither a file nor a directory).
Batches ==
  {[kind |-> k, files |-> <<>>] : k \in {"noarg", "missing", "other"}}
    \cup {[kind |-> "file", files |-> <<f>>] : f \in BatchFiles}
    \cup {[kind |-> "dir", files |-> fs] : fs \in SeqsUpTo(BatchFiles, MaxDocs)}

\* One document with any message content, and a record in both its forms.
NormalizerRuns ==
  {[kind |-> "file", files |-> <<File(".pdf", Healthy(c))>>] : c \in AllContents}
    \cup {[kind |-> "dir", files |-> <<File(".pdf", Healthy(FlatContent(d))),
                                       File(".pdf", Healthy(WrappedContent(d)))>>] :
            d \in LogicalRecords}

(***************************************************************************)
(* main                                                                    *)
(***************************************************************************)
VARIABLES
  argv,       \* the command line and what its path names
  pc,         \* where main is
  pdf_files,  \* the documents to process: indices into argv.files
  cur,        \* the index in pdf_files of the document of this iteration
  conn,       \* "unopened", "open" or "closed"
  rows,       \* the rows of table invoices, in insertion order
  locals,     \* pdf_content / response / invoice / the exception in flight
  out,        \* what was printed
  hist        \* the calls made: model calls, json.loads calls, inserts

vars == <<argv, pc, pdf_files, cur, conn, rows, locals, out, hist>>

NoLocals == [response |-> None, invoice |-> None, e |-> None]

\* The document of the current iteration.
doc == pdf_files[cur]
sc  == argv.files[doc].sc

InitWith(runs) ==
  /\ argv \in runs
  /\ pc = "main"
  /\ pdf_files = <<>>
  /\ cur = 0
  /\ conn = "unopened"
  /\ rows = <<>>
  /\ locals = NoLocals
  /\ out = <<>>
  /\ hist = <<>>

Init == InitWith(Batches \cup NormalizerRuns)

Line(msg, d, e) == [msg |-> msg, doc |-> d, e |-> e]
Call(f, d) == [call |-> f, doc |-> d]

\* lines 195-197
Main_Usage ==
  /\ pc = "main" /\ argv.kind = "noarg"
  /\ out' = Append(out, Line("Usage", 0, None))
  /\ pc' = "returned"
  /\ UNCHANGED <<argv, pdf_files, cur, conn, rows, locals, hist>>

\* lines 202-204
Main_PathNotFound ==
  /\ pc = "main" /\ argv.kind = "missing"
  /\ out' = Append(out, Line("PathNotFound", 0, None))
  /\ pc' = "returned"
  /\ UNCHANGED <<argv, pdf_files, cur, conn, rows, locals, hist>>

\* lines 206-211
Main_NotPdf ==
  /\ pc = "main" /\ argv.kind = "file"
  /\ ~EndsWithPdf(Lower(argv.files[1].ext))
  /\ out' = Append(out, Line("NotPdf", 0, None))
  /\ pc' = "returned"
  /\ UNCHANGED <<argv, pdf_files, cur, conn, rows, locals, hist>>

\* lines 206-215: the documents found at the path.
Enumerate ==
  CASE argv.kind = "file" -> IF EndsWithPdf(Lower(argv.files[1].ext)) THEN <<1>> ELSE <<>>
    [] argv.kind = "dir"  ->
         SelectSeq([i \in 1..Len(argv.files) |-> i],
                   LAMBDA i : EndsWithPdf(Lower(argv.files[i].ext)))
    [] OTHER -> <<>>

\* Mutant of Main_NoPdfFiles: setup_database is called before the check.
Main_NoPdfFiles_OpensFirst ==
  /\ pc = "main" /\ argv.kind \in {"dir", "other"}
  /\ Enumerate = <<>>
  /\ conn' = "open"
  /\ out' = Append(out, Line("NoPdfFiles", 0, None))
  /\ pc' = "returned"
  /\ UNCHANGED <<argv, pdf_files, cur, rows, locals, hist>>

\* lines 217-219
Main_NoPdfFiles ==
  /\ pc = "main" /\ argv.kind \in {"dir", "other"}
  /\ Enumerate = <<>>
  /\ out' = Append(out, Line("NoPdfFiles", 0, None))
  /\ pc' = "returned"
  /\ UNCHANGED <<argv, pdf_files, cur, conn, rows, locals, hist>>

\* lines 199-221 when documents are found: setup_database opens the handle.
Main_Setup ==
  /\ pc = "main" /\ argv.kind \in {"file", "dir"}
  /\ Enumerate # <<>>
  /\ pdf_files' = Enumerate
  /\ conn' = "open"
  /\ cur' = 1
  /\ pc' = "for"
  /\ UNCHANGED <<argv, rows, locals, out, hist>>

\* lines 223-224
Doc_Begin ==
  /\ pc = "for" /\ cur <= Len(pdf_files)
  /\ out' = Append(out, Line("Processing", doc, None))
  /\ locals' = NoLocals
  /\ pc' = "get_pdf_content"
  /\ UNCHANGED <<argv, pdf_files, cur, conn, rows, hist>>

\* line 226
Doc_GetPdfContent ==
  /\ pc = "get_pdf_content"
  /\ hist' = Append(hist, Call("get_pdf_content", doc))
  /\ IF sc.pdf = "raise"
     THEN /\ locals' = [locals EXCEPT !.e = Raise("PdfError", {})]
          /\ pc' = "except"
     ELSE /\ locals' = locals
          /\ pc' = "get_ai_response"
  /\ UNCHANGED <<argv, pdf_files, cur, conn, rows, out>>

\* Mutant of Doc_GetAiResponse: a failed model call is tried once more.
Doc_GetAiResponse_Retry ==
  /\ pc = "get_ai_response"
  /\ IF sc.api = "raise"
     THEN /\ hist' = hist \o <<Call("create", doc), Call("create", doc)>>
          /\ locals' = [locals EXCEPT !.e = Raise("APIError", {})]
          /\ pc' = "except"
     ELSE LET got == get_ai_response(sc.content)
          IN /\ hist' = hist \o <<Call("create", doc), Call("json.loads", doc)>>
             /\ IF got.r = "raise"
                THEN /\ locals' = [locals EXCEPT !.e = got]
                     /\ pc' = "except"
                ELSE /\ locals' = [locals EXCEPT !.response = got.v]
                     /\ pc' = "normalize"
  /\ UNCHANGED <<argv, pdf_files, cur, conn, rows, out>>

\* line 227, lines 169-176 and 148-155: the model call and get_ai_response.
Doc_GetAiResponse ==
  /\ pc = "get_ai_response"
  /\ IF sc.api = "raise"
     THEN /\ hist' = Append(hist, Call("create", doc))
          /\ locals' = [locals EXCEPT !.e = Raise("APIError", {})]
          /\ pc' = "except"
     ELSE LET got == get_ai_response(sc.content)
          IN /\ hist' = hist \o <<Call("create", doc), Call("json.loads", doc)>>
             /\ IF got.r = "raise"
                THEN /\ locals' = [locals EXCEPT !.e = got]
                     /\ pc' = "except"
                ELSE /\ locals' = [locals EXCEPT !.response = got.v]
                     /\ pc' = "normalize"
  /\ UNCHANGED <<argv, pdf_files, cur, conn, rows, out>>

\* line 227, lines 178-191: the response normalizer.
Doc_Normalize ==
  /\ pc = "normalize"
  /\ LET got == ResponseNormalizer(locals.response)
     IN /\ hist' = IF Truthy(locals.response)
                   THEN Append(hist, Call("json.loads", doc)) ELSE hist
        /\ IF got.r = "raise"
           THEN /\ locals' = [locals EXCEPT !.e = got]
                /\ pc' = "except"
           ELSE /\ locals' = [locals EXCEPT !.invoice = got.v]
                /\ pc' = "insert"
  /\ UNCHANGED <<argv, pdf_files, cur, conn, rows, out>>

\* line 228
Doc_Insert ==
  /\ pc = "insert"
  /\ hist' = Append(hist, Call("insert", doc))
  /\ IF sc.insert = "raise"
     THEN /\ locals' = [locals EXCEPT !.e = Raise("sqlite3.Error", {})]
          /\ rows' = rows
          /\ pc' = "except"
     ELSE /\ rows' = Append(rows, insert_invoice_data(model_dump(locals.invoice)))
          /\ locals' = locals
          /\ pc' = "print"
  /\ UNCHANGED <<argv, pdf_files, cur, conn, out>>

\* lines 229-231, then the next iteration
Doc_Print ==
  /\ pc = "print"
  /\ out' = out \o <<Line("Extracted", doc, None),
                     Line("Dump", doc, model_dump(locals.invoice)),
                     Line("Separator", doc, None)>>
  /\ cur' = cur + 1
  /\ pc' = "for"
  /\ UNCHANGED <<argv, pdf_files, conn, rows, locals, hist>>

\* Mutant of Doc_Except: the failure is reported and ends the loop.
Doc_Except_EndsLoop ==
  /\ pc = "except"
  /\ out' = Append(out, Line("Error", doc, locals.e))
  /\ cur' = Len(pdf_files) + 1
  /\ pc' = "for"
  /\ UNCHANGED <<argv, pdf_files, conn, rows, locals, hist>>

\* lines 232-233, then the next iteration
Doc_Except ==
  /\ pc = "except"
  /\ out' = Append(out, Line("Error", doc, locals.e))
  /\ cur' = cur + 1
  /\ pc' = "for"
  /\ UNCHANGED <<argv, pdf_files, conn, rows, locals, hist>>

\* line 235
Main_Close ==
  /\ pc = "for" /\ cur > Len(pdf_files)
  /\ conn' = "closed"
  /\ pc' = "returned"
  /\ UNCHANGED <<argv, pdf_files, cur, rows, locals, out, hist>>

Next ==
  \/ Main_Usage
  \/ Main_PathNotFound
  \/ Main_NotPdf
  \/ Main_NoPdfFiles
  \/ Main_Setup
  \/ Doc_Begin
  \/ Doc_GetPdfContent
  \/ Doc_GetAiResponse
  \/ Doc_Normalize
  \/ Doc_Insert
  \/ Doc_Print
  \/ Doc_Except
  \/ Main_Close

Spec == Init /\ [][Next]_vars

(***************************************************************************)
(* Vocabulary of the properties                                            *)
(***************************************************************************)
Returned == pc = "returned"
\* The command line names no PDF document.
NoPdfAtPath ==
  \/ argv.kind \in {"noarg", "missing", "other"}
  \/ \A i \in 1..Len(argv.files) : argv.files[i].ext \notin {".pdf", ".PDF"}
\* The enumerated documents.
Docs == {pdf_files[k] : k \in 1..Len(pdf_files)}
\* The printed lines of a kind about a document, and the calls made for it.
Lines(msg, d) == {i \in 1..Len(out) : out[i].msg = msg /\ out[i].doc = d}
Calls(f, d)   == {i \in 1..Len(hist) : hist[i] = Call(f, d)}
Failed(d)     == Lines("Error", d) # {}
Succeeded(d)  == Lines("Separator", d) # {}
Finished(d)   == Failed(d) \/ Succeeded(d)
\* The exception reported for a document that failed.
ErrorOf(d) == out[CHOOSE i \in Lines("Error", d) : TRUE].e
\* The record printed for a document that succeeded.
DumpOf(d) == out[CHOOSE i \in Lines("Dump", d) : TRUE].e
ScenarioOf(d) == argv.files[d].sc
IsHealthy(d) == ScenarioOf(d).pdf = "ok" /\ ScenarioOf(d).api = "ok" /\ ScenarioOf(d).insert = "ok"
\* The message content the model returns for document d.
ContentOf(d) == ScenarioOf(d).content

\* Whether the scenario of a document makes one of its stages fail, and
\* whether its response passes validation.
PassesValidation(d) ==
  /\ ScenarioOf(d).pdf = "ok" /\ ScenarioOf(d).api = "ok"
  /\ get_ai_response(ContentOf(d)).r = "ret"
  /\ ResponseNormalizer(get_ai_response(ContentOf(d)).v).r = "ret"
StageFails(d) == ~PassesValidation(d) \/ ScenarioOf(d).insert = "raise"

\* A document that cannot be parsed: its text extraction raises, or the
\* model's answer for it is no JSON.
Unparsable(d) == ScenarioOf(d).pdf = "raise" \/ ContentOf(d) = PyStr("not json")
ValidDoc(d)   == IsHealthy(d) /\ ContentOf(d) = FlatContent(ValidFlat)

(***************************************************************************)
(* C1: a failure of any stage of a document is caught and reported with    *)
(* that document's path, every later document is still processed and the   *)
(* run ends normally; one valid and one unparsable document give exactly   *)
(* one row and exactly one reported failure.                               *)
(***************************************************************************)
C1_FailureIsolated ==
  \* an error line follows the Processing line of the same document
  /\ \A i \in 1..Len(out) :
       out[i].msg = "Error" =>
         i > 1 /\ out[i-1].msg = "Processing" /\ out[i-1].doc = out[i].doc
  \* the run is never stuck before main returns
  /\ (~Returned => ENABLED Next)
  /\ (Returned /\ ~NoPdfAtPath) =>
       /\ conn = "closed"
       /\ Docs # {}
       /\ \A d \in Docs :
            /\ Cardinality(Lines("Processing", d)) = 1
            /\ StageFails(d) => Cardinality(Lines("Error", d)) = 1 /\ ~Succeeded(d)
            /\ ~StageFails(d) => Succeeded(d) /\ ~Failed(d)
       /\ Len(rows) = Cardinality({d \in Docs : ~StageFails(d)})
       /\ (/\ Cardinality(Docs) = 2
           /\ \E d \in Docs : ValidDoc(d)
           /\ \E d \in Docs : Unparsable(d))
            => /\ Len(rows) = 1
               /\ Cardinality({i \in 1..Len(out) : out[i].msg = "Error"}) = 1

\* The unparsable document comes first and the valid one is persisted after it.
C1_Witness ==
  /\ Returned /\ Len(pdf_files) = 2
  /\ Unparsable(pdf_files[1]) /\ ValidDoc(pdf_files[2])
  /\ Failed(pdf_files[1]) /\ Succeeded(pdf_files[2])
  /\ Len(rows) = 1

(***************************************************************************)
(* C8: with no argument, a path that does not exist, a file that is no PDF *)
(* or no PDF document found, main prints exactly one message, processes no *)
(* document, calls no model, never opens the persistence handle and        *)
(* persists no row; for a path that does not exist the message is the      *)
(* PathNotFound one.                                                       *)
(***************************************************************************)
C8_BatchLevelAbort ==
  NoPdfAtPath =>
    /\ conn = "unopened" /\ rows = <<>> /\ hist = <<>> /\ pdf_files = <<>>
    /\ Len(out) <= 1
    /\ pc \in {"main", "returned"}
    /\ ~Returned => ENABLED Next
    /\ Returned =>
         /\ Len(out) = 1
         /\ out[1].msg = CASE argv.kind = "noarg"   -> "Usage"
                           [] argv.kind = "missing" -> "PathNotFound"
                           [] argv.kind = "file"    -> "NotPdf"
                           [] OTHER                 -> "NoPdfFiles"

C8_Witness ==
  /\ Returned /\ argv.kind = "missing"
  /\ out = <<Line("PathNotFound", 0, None)>> /\ conn = "unopened"

(***************************************************************************)
(* C10: each enumerated document is processed exactly once, in enumeration *)
(* order, with at most one model call and at most one insert; a document   *)
(* that failed is not processed again, and no model call for a document    *)
(* begins before the previous document has ended.                          *)
(***************************************************************************)
C10_ExactlyOnceInOrder ==
  /\ \A d \in Docs :
       /\ Cardinality(Lines("Processing", d)) <= 1
       /\ Cardinality(Calls("get_pdf_content", d)) <= 1
       /\ Cardinality(Calls("create", d)) <= 1
       /\ Cardinality(Calls("insert", d)) <= 1
       /\ Cardinality(Lines("Error", d)) + Cardinality(Lines("Separator", d)) <= 1
       \* nothing is done for a document once it has ended
       /\ Finished(d) => (pc \in {"for", "returned"} \/ doc # d)
  \* the calls are made in enumeration order
  /\ \A i, j \in 1..Len(hist) : i < j => hist[i].doc <= hist[j].doc
  /\ \A i \in 1..Len(hist) :
       hist[i].call = "create" =>
         \A d \in Docs : d < hist[i].doc => Finished(d)
  /\ Returned /\ ~NoPdfAtPath =>
       /\ Docs = {i \in 1..Len(argv.files) : argv.files[i].ext \in {".pdf", ".PDF"}}
       /\ \A d \in Docs : Cardinality(Lines("Processing", d)) = 1 /\ Finished(d)
  /\ LET started == SelectSeq(out, LAMBDA l : l.msg = "Processing")
     IN /\ Len(started) <= Len(pdf_files)
        /\ \A k \in 1..Len(started) : started[k].doc = pdf_files[k]

\* Two documents were processed, the first one failing at the model call.
C10_Witness ==
  /\ Returned /\ Len(pdf_files) = 2
  /\ ScenarioOf(pdf_files[1]).api = "raise"
  /\ Cardinality(Calls("create", pdf_files[1])) = 1
  /\ Cardinality(Calls("create", pdf_files[2])) = 1
  /\ Cardinality(Calls("insert", pdf_files[2])) = 1

(***************************************************************************)
(* Vocabulary of the properties about one response                         *)
(***************************************************************************)
\* The document reaches the model and the model answers.
Answered(d) == ScenarioOf(d).pdf = "ok" /\ ScenarioOf(d).api = "ok"
\* The message content is the JSON text of an object.
IsObjectText(c) == c.t = "jstr" /\ c.j.t = "obj"
IsFlatText(c)   == IsObjectText(c) /\ "invoice" \notin DOMAIN c.j.o
\* The row inserted for a document that succeeded.
RowOf(d) == rows[Cardinality({x \in Docs : x <= d /\ Calls("insert", x) # {}
                                            /\ ScenarioOf(x).insert = "ok"})]
\* A row whose columns all hold a value of the column's declared type.
TypedRow(row) ==
  /\ \A c \in {"vendor_name", "vendor_address", "vendor_phone", "vendor_email",
               "customer_name", "customer_address", "customer_phone",
               "customer_email", "invoice_number", "date"} : IsStr(row[c])
  /\ row.total_amount.t = "float" /\ row.tax.t = "float"
  /\ row.payment_terms.t = "int"
\* The object lacks the field tax where the normalizer looks for it.
MissingTaxText(c) ==
  /\ IsObjectText(c)
  /\ IF "invoice" \in DOMAIN c.j.o
     THEN c.j.o["invoice"].t = "obj" /\ "tax" \notin DOMAIN c.j.o["invoice"].o
     ELSE "tax" \notin DOMAIN c.j.o
\* The response gets as far as validation against Invoice.
ReachesValidation(c) ==
  IsObjectText(c) /\
    ("invoice" \in DOMAIN c.j.o => Merged(c.j.o).r = "ret")

C3_Original ==
  \A d \in Docs :
    (Answered(d) /\ ContentOf(d) = PyStr("") /\ Finished(d)) =>
      /\ Failed(d)
      /\ ErrorOf(d).exc = EmptyModelResponse
      /\ Calls("json.loads", d) = {}

(***************************************************************************)
(* C4 as stated: a flat response in which a required field holds a value   *)
(* of another primitive type (a string for totalAmount or tax, a string or *)
(* a float for paymentTerms) fails with SchemaViolation and gives no       *)
(* record.                                                                 *)
(***************************************************************************)
Mistyped(m) ==
  \/ \E k \in {"totalAmount", "tax"} : k \in DOMAIN m /\ m[k].t = "str"
  \/ "paymentTerms" \in DOMAIN m /\ m["paymentTerms"].t \in {"str", "float"}

C4_Original ==
  \A d \in Docs :
    (Answered(d) /\ IsFlatText(ContentOf(d)) /\ Mistyped(ContentOf(d).j.o)
       /\ Finished(d)) =>
      /\ Failed(d)
      /\ ErrorOf(d).exc = SchemaViolation
      /\ Calls("insert", d) = {}

(***************************************************************************)
(* C5: the wrapped form of a record (scalars under 'invoice', vendor and   *)
(* customer at top level) is normalized to the same record as its flat     *)
(* form, and the two forms succeed or fail together.                       *)
(***************************************************************************)
C5_MergeEquivalence ==
  \A i, j \in Docs :
    (/\ IsHealthy(i) /\ IsHealthy(j) /\ Finished(i) /\ Finished(j)
     /\ IsFlatText(ContentOf(i))
     /\ ContentOf(j) = WrappedContent(ContentOf(i).j.o)) =>
      /\ Succeeded(i) <=> Succeeded(j)
      /\ Succeeded(i) => DumpOf(i) = DumpOf(j) /\ RowOf(i) = RowOf(j)

\* A record persisted from both of its forms.
C5_Witness ==
  /\ Returned /\ Len(pdf_files) = 2
  /\ IsFlatText(ContentOf(pdf_files[1]))
  /\ ContentOf(pdf_files[2]) = WrappedContent(ContentOf(pdf_files[1]).j.o)
  /\ Succeeded(pdf_files[1]) /\ Succeeded(pdf_files[2])
  /\ Len(rows) = 2 /\ rows[1] = rows[2]

(***************************************************************************)
(* C6: for a flat object that conforms to the schema the normalizer        *)
(* returns a record whose fields, nested ones included, equal the input    *)
(* values with none lost or changed, and the row handed to persistence     *)
(* carries the same values.                                                *)
(***************************************************************************)
ConformsParty(v) ==
  /\ v.t = "obj" /\ PartyFields \subseteq DOMAIN v.o
  /\ \A f \in PartyFields : v.o[f].t = "str"
Conforms(m) ==
  /\ InvoiceFields \subseteq DOMAIN m
  /\ ConformsParty(m["vendor"]) /\ ConformsParty(m["customer"])
  /\ m["invoiceNumber"].t = "str" /\ m["date"].t = "str"
  /\ m["totalAmount"].t \in {"int", "float"} /\ m["tax"].t \in {"int", "float"}
  /\ m["paymentTerms"].t = "int"

C7_Original ==
  (/\ Returned /\ Len(pdf_files) = 1 /\ IsHealthy(pdf_files[1])
   /\ ContentOf(pdf_files[1]) = FlatContent(NoPhoneNoTerms)) =>
    /\ Len(rows) = 1
    /\ rows[1].vendor_name = PyStr("Acme")
    /\ PyEq(rows[1].total_amount, PyFloat(1000))

(***************************************************************************)
(* C7 amended: that response fails validation with SchemaViolation naming  *)
(* vendor.phone, customer.phone and paymentTerms, and no row is persisted; *)
(* the same response with both phones and paymentTerms present validates   *)
(* and gives exactly one row with vendor_name 'Acme' and total_amount      *)
(* 100.0.                                                                  *)
(***************************************************************************)
C7_PhoneAndTermsRequired ==
  (Returned /\ Len(pdf_files) = 1 /\ IsHealthy(pdf_files[1])) =>
    /\ ContentOf(pdf_files[1]) = FlatContent(NoPhoneNoTerms) =>
         /\ Failed(pdf_files[1])
         /\ ErrorOf(pdf_files[1]).exc = SchemaViolation
         /\ ErrorOf(pdf_files[1]).names =
              {<<"vendor", "phone">>, <<"customer", "phone">>, <<"paymentTerms">>}
         /\ rows = <<>>
    /\ ContentOf(pdf_files[1]) = FlatContent(ValidFlat) =>
         /\ Len(rows) = 1
         /\ rows[1].vendor_name = PyStr("Acme")
         /\ rows[1].total_amount = PyFloat(1000)

C7_Witness ==
  /\ Returned /\ Len(pdf_files) = 1 /\ IsHealthy(pdf_files[1])
  /\ ContentOf(pdf_files[1]) = FlatContent(NoPhoneNoTerms)
  /\ Failed(pdf_files[1]) /\ rows = <<>>

(***************************************************************************)
(* C9 as stated, for the responses that are JSON objects: the normalizer   *)
(* either gives a record or fails with a classified failure                *)
(* (EmptyModelResponse, MalformedResponse, or a SchemaViolation that names *)
(* a field), also for a wrapped object without vendor or customer.         *)
(***************************************************************************)
C9_Original ==
  \A d \in Docs :
    (IsHealthy(d) /\ IsObjectText(ContentOf(d)) /\ Finished(d)) =>
      \/ Succeeded(d)
      \/ ErrorOf(d).exc \in {EmptyModelResponse, MalformedResponse}
      \/ ErrorOf(d).exc = SchemaViolation /\ ErrorOf(d).names # {}

====
